---- MODULE Spec2Model ----
(***************************************************************************)
(* GreppoAppProxy (src/library/src/greppo/greppo.py): the layer lists of   *)
(* one proxy object and the handlers that fill them: raster_layer,         *)
(* overlay_layer and gpo_reference_data.                                   *)
(*                                                                         *)
(* Python indexing x[0] is written x[1] here (TLA+ sequences start at 1).  *)
(* A band is the pair <<array, transform>> that rasterio's reproject       *)
(* returns; its array is (bands, rows, cols), a one-element stack of a     *)
(* 2-D array, which is a sequence of rows.  Byte strings are sequences of  *)
(* numbers 0..255.  Coordinates of overlay geometry are fixed-point with   *)
(* one binary fractional digit (the number n is stored as 2n), so that the *)
(* float division by 2 of the source is exact.                             *)
(***************************************************************************)
EXTENDS Integers, Sequences, FiniteSets, TLC

VARIABLES
    raster_layers,            \* self.raster_layers: RasterLayer records
    raster_image_reference,   \* self.raster_image_reference: byte strings
    overlay_layers,           \* self.overlay_layers: OverlayLayer records
    open_datasets,            \* dataset handles opened by rasterio.open and not closed
    successes,                \* history: the bytes recorded by each ingestion that returned normally
    n_calls,                  \* history: raster_layer calls made so far
    last                      \* observation of the most recent call

vars == <<raster_layers, raster_image_reference, overlay_layers,
          open_datasets, successes, n_calls, last>>

----------------------------------------------------------------------------
(* Bounds of the model *)

MaxCalls == 2        \* raster_layer calls on one proxy in Spec
MaxBands == 4        \* largest source band count
MaxOverlays == 1     \* overlay_layer calls on one proxy
MaxScale == 2        \* largest pixel size of a destination transform
MaxCoord == 4        \* geometry coordinates are multiples of 5 up to 5 * MaxCoord

(* Program constants *)

SentinelThreshold == 100000000       \* 1e8

DataUriPrefix == "data:image/png;base64,"
dst_crs == "EPSG:4326"

----------------------------------------------------------------------------
(* Helpers on sequences *)

Last(s) == s[Len(s)]

RECURSIVE Concat(_)
Concat(ss) == IF ss = <<>> THEN <<>> ELSE Head(ss) \o Concat(Tail(ss))

Max2(a, b) == IF a >= b THEN a ELSE b

\* range(lo, hi) of Python, as the number of iterations
RangeLen(lo, hi) == Max2(0, hi - lo)

----------------------------------------------------------------------------
(* base64.b64encode *)

B64Alphabet ==
    << "A","B","C","D","E","F","G","H","I","J","K","L","M","N","O","P",
       "Q","R","S","T","U","V","W","X","Y","Z","a","b","c","d","e","f",
       "g","h","i","j","k","l","m","n","o","p","q","r","s","t","u","v",
       "w","x","y","z","0","1","2","3","4","5","6","7","8","9","+","/" >>

B64Char(i) == B64Alphabet[i + 1]

RECURSIVE b64encode(_)
b64encode(bs) ==
    IF Len(bs) = 0 THEN <<>>
    ELSE IF Len(bs) = 1 THEN
        << B64Char(bs[1] \div 4), B64Char((bs[1] % 4) * 16), "=", "=" >>
    ELSE IF Len(bs) = 2 THEN
        << B64Char(bs[1] \div 4),
           B64Char((bs[1] % 4) * 16 + bs[2] \div 16),
           B64Char((bs[2] % 16) * 4), "=" >>
    ELSE
        << B64Char(bs[1] \div 4),
           B64Char((bs[1] % 4) * 16 + bs[2] \div 16),
           B64Char((bs[2] % 16) * 4 + bs[3] \div 64),
           B64Char(bs[3] % 64) >>
        \o b64encode(SubSeq(bs, 4, Len(bs)))

----------------------------------------------------------------------------
(* Affine transform: transform * (x, y) *)

Affine(a, b, c, d, e, f) == [a |-> a, b |-> b, c |-> c, d |-> d, e |-> e, f |-> f]

AffineMul(t, x, y) == << t.a * x + t.b * y + t.c, t.d * x + t.e * y + t.f >>

----------------------------------------------------------------------------
(* MemoryFile: a file-like object, read() returns what lies after the      *)
(* position and moves the position to the end.                             *)

MemoryFile(content) == [content |-> content, pos |-> 0]

MemRead(mf) ==
    [data |-> SubSeq(mf.content, mf.pos + 1, Len(mf.content)),
     mf   |-> [mf EXCEPT !.pos = Len(mf.content)]]

----------------------------------------------------------------------------
(* The raster file named by file_path, as rasterio sees it.  px is the     *)
(* 2-D pixel array of every band; default is what                          *)
(* calculate_default_transform answers for the file: the destination       *)
(* transform, width and height.                                            *)

SourceRaster(openable, count, px, src_bounds, transform, width, height) ==
    [openable   |-> openable,
     count      |-> count,
     bands      |-> [k \in 1..count |-> px],
     src_bounds |-> src_bounds,
     default    |-> [transform |-> transform, width |-> width, height |-> height]]

\* calculate_default_transform(src.crs, dst_crs, src.width, src.height, *src.bounds)
calculate_default_transform(file) == file.default

\* reproject(src_band, dst_crs=dst_crs): (array of shape (1, rows, cols), transform);
\* the resampled pixels are the source's pixels on the destination grid.
reproject(file, band_n) == << << file.bands[band_n] >>, file.default.transform >>

\* rasterio.band(src_dataset, 1): the source's own band, not reprojected
SourceBand(file, band_n) == << << file.bands[band_n] >>, file.src_bounds >>

\* for band_n_1 in range(src_dataset.count): dst_bands.append(reproject(...))
ReprojectBands(file) == [k \in 1..file.count |-> reproject(file, k)]

\* Faulty variant: the padding loop starts at 0 instead of len(dst_bands)
PadBands_FromZero(dst_bands, file) ==
    IF file.count # 3
    THEN dst_bands \o [i \in 1..RangeLen(0, file.count) |-> SourceBand(file, 1)]
    ELSE dst_bands

\* if src_dataset.count != 3: for i in range(len(dst_bands), src_dataset.count): append
PadBands(dst_bands, file) ==
    IF file.count # 3
    THEN dst_bands \o [i \in 1..RangeLen(Len(dst_bands), file.count) |-> SourceBand(file, 1)]
    ELSE dst_bands

\* Faulty variant: the mask compares the magnitude of the pixel
AlphaValue_Magnitude(v) == IF (IF v < 0 THEN -v ELSE v) > SentinelThreshold THEN 0 ELSE 1

\* np.where(a > 1e8, 0, 1) on one pixel
AlphaValue(v) == IF v > SentinelThreshold THEN 0 ELSE 1

\* np.where(dst_bands[0][0] > 1e8, 0, 1).astype("uint8"), elementwise on (1, rows, cols)
AlphaMask(arr) ==
    [b \in DOMAIN arr |-> [r \in DOMAIN arr[b] |-> [c \in DOMAIN arr[b][r] |->
        AlphaValue(arr[b][r][c]) % 256]]]

\* alpha_band = list(deepcopy(dst_bands[0])); alpha_band[0] = alpha; tuple(alpha_band)
AlphaBand(dst_bands) == << AlphaMask(dst_bands[1][1]), dst_bands[1][2] >>

AppendAlpha(dst_bands) == Append(dst_bands, AlphaBand(dst_bands))

\* png_kwargs: the keys the update sets
PngKwargs(file, dst_bands) ==
    LET d == calculate_default_transform(file) IN
    [crs |-> dst_crs, width |-> d.width, height |-> d.height, driver |-> "PNG",
     dtype |-> "uint8", transform |-> d.transform, count |-> Len(dst_bands)]

\* numpy's cast of a pixel to the encoder's uint8
ToUint8(v) == v % 256

Ravel(arr2d) == Concat([r \in DOMAIN arr2d |-> [c \in DOMAIN arr2d[r] |-> ToUint8(arr2d[r][c])]])

\* The encoder: dst_file.write(dst_band[0][0], i + 1) and write_colormap(i + 1, ...) for
\* every band, serialised as signature, band count, the colormap {0: red, 255: black}
\* and the pixels of the bands in order.
EncodePng(dst_bands, png_kwargs) ==
    << 137, 80, 78, 71 >> \o << png_kwargs.count >>
    \o << 255, 0, 0, 255, 0, 0, 0, 255 >>
    \o Concat([i \in DOMAIN dst_bands |-> Ravel(dst_bands[i][1][1])])

\* Faulty variant: the two mapped corners as they come, not rearranged
RasterBounds_Corners(transform, width, height) ==
    << AffineMul(transform, 0, 0), AffineMul(transform, width, height) >>

\* Faulty variant: each pair transposed, x before y
RasterBounds_Transposed(transform, width, height) ==
    LET p0 == AffineMul(transform, 0, 0)
        p1 == AffineMul(transform, width, height)
    IN  << << p0[1], p1[2] >>, << p1[1], p0[2] >> >>

\* (bounds_bottom, bounds_right) = transform * (0, 0)
\* (bounds_top, bounds_left) = transform * (width, height)
\* bounds = [[bounds_left, bounds_bottom], [bounds_right, bounds_top]]
RasterBounds(transform, width, height) ==
    LET p0 == AffineMul(transform, 0, 0)
        p1 == AffineMul(transform, width, height)
        bounds_bottom == p0[1]
        bounds_right  == p0[2]
        bounds_top    == p1[1]
        bounds_left   == p1[2]
    IN  << << bounds_left, bounds_bottom >>, << bounds_right, bounds_top >> >>

----------------------------------------------------------------------------
(* Where a raster_layer call can raise.  env.fault names the step at which *)
(* a collaborator raises ("none": no collaborator raises); env.early_flush *)
(* says whether the dataset writer has put the encoded image into the      *)
(* memory file while it is still open (otherwise it does so when closed).  *)

FaultPoints ==
    {"none", "transform", "reproject", "open_encoder", "write", "colormap",
     "close", "uri", "bounds", "record"}

FailedAt(file, fault) ==
    IF ~file.openable THEN "open"                               \* rasterio.open raises
    ELSE IF fault = "transform" THEN fault
    ELSE IF fault = "reproject" /\ file.count > 0 THEN fault
    ELSE IF Len(PadBands(ReprojectBands(file), file)) = 0 THEN "alpha"  \* dst_bands[0]: IndexError
    ELSE IF fault = "reproject" THEN "none"
    ELSE fault

\* The steps that come after self.raster_image_reference.append(png_memfile.read())
AfterReferenceAppend == {"close", "uri", "bounds", "record", "none"}

\* Faulty variant: the reference list is appended to before the source is opened
ReferenceAppended_BeforeOpen(failed_at) == failed_at \in AfterReferenceAppend \cup {"open"}

ReferenceAppended(failed_at) == failed_at \in AfterReferenceAppend

\* src_dataset = rasterio.open(file_path): the handle exists once open has returned.
\* It is not opened in a with-block and no statement of the handler closes it, on
\* the normal path or on a failure path; only the MemoryFile and the PNG writer
\* are scoped.  Whether the interpreter later finalises the object is outside
\* the handler.
DatasetLeftOpen(failed_at) == failed_at # "open"

NoCall ==
    [op |-> "init", failed_at |-> "none", file |-> <<>>, n_reprojected |-> 0,
     n_before_alpha |-> 0, n_after_alpha |-> 0, count_kw |-> 0,
     band0 |-> <<>>, alpha |-> <<>>, first_read |-> <<>>, second_read |-> <<>>,
     box |-> <<>>, result |-> [absent |-> TRUE, bytes |-> <<>>]]

RasterLayerRecord(id, title, description, url, bounds, visible) ==
    [id |-> id, title |-> title, description |-> description,
     image_data_uri |-> url, bounds |-> bounds, visible |-> visible]

\* GreppoAppProxy.raster_layer(file_path, title, description, visible)
raster_layer(file, title, description, visible, env) ==
    LET failed_at   == FailedAt(file, env.fault)
        reached(S)  == failed_at \in S
        has_bands   == reached({"open_encoder", "write", "colormap"} \cup AfterReferenceAppend)
        id          == Len(raster_layers) + Len(overlay_layers) + 1
        d           == calculate_default_transform(file)
        reprojected == ReprojectBands(file)
        padded      == PadBands(reprojected, file)
        dst_bands   == AppendAlpha(padded)
        png_kwargs  == PngKwargs(file, dst_bands)
        png         == EncodePng(dst_bands, png_kwargs)
        memfile0    == MemoryFile(IF env.early_flush THEN png ELSE <<>>)
        read1       == MemRead(memfile0)
        memfile1    == [read1.mf EXCEPT !.content = png]        \* the writer is closed
        read2       == MemRead(memfile1)
        url         == << DataUriPrefix >> \o b64encode(read2.data)
        bounds      == RasterBounds(d.transform, d.width, d.height)
    IN  /\ raster_image_reference' =
              IF ReferenceAppended(failed_at)
              THEN Append(raster_image_reference, read1.data)
              ELSE raster_image_reference
        /\ raster_layers' =
              IF failed_at = "none"
              THEN Append(raster_layers,
                          RasterLayerRecord(id, title, description, url, bounds, visible))
              ELSE raster_layers
        /\ open_datasets' = IF DatasetLeftOpen(failed_at) THEN open_datasets + 1 ELSE open_datasets
        /\ successes' = IF failed_at = "none" THEN Append(successes, read1.data) ELSE successes
        /\ n_calls' = n_calls + 1
        /\ last' = [NoCall EXCEPT
                      !.op = "raster_layer",
                      !.failed_at = failed_at,
                      !.file = file,
                      !.n_reprojected = IF has_bands THEN Len(reprojected) ELSE 0,
                      !.n_before_alpha = IF has_bands THEN Len(padded) ELSE 0,
                      !.n_after_alpha = IF has_bands THEN Len(dst_bands) ELSE 0,
                      !.count_kw = IF has_bands THEN png_kwargs.count ELSE 0,
                      !.band0 = IF has_bands THEN dst_bands[1][1][1] ELSE <<>>,
                      !.alpha = IF has_bands THEN Last(dst_bands)[1][1] ELSE <<>>,
                      !.first_read = IF ReferenceAppended(failed_at) THEN read1.data ELSE <<>>,
                      !.second_read = IF reached({"bounds", "record", "none"}) THEN read2.data ELSE <<>>]
        /\ UNCHANGED overlay_layers

----------------------------------------------------------------------------
(* overlay_layer: data is the bounds table of the geometry column, one row *)
(* [minx, miny, maxx, maxy] per feature.                                   *)

RECURSIVE SeriesMin(_)
SeriesMin(s) == IF Len(s) = 1 THEN s[1]
                ELSE LET m == SeriesMin(Tail(s)) IN IF s[1] <= m THEN s[1] ELSE m

RECURSIVE SeriesMax(_)
SeriesMax(s) == IF Len(s) = 1 THEN s[1]
                ELSE LET m == SeriesMax(Tail(s)) IN IF s[1] >= m THEN s[1] ELSE m

Column(data, name) == [i \in DOMAIN data |-> data[i][name]]

\* x / 2 on a fixed-point number
Halve(x) == x \div 2

RECURSIVE Pow2(_)
Pow2(n) == IF n = 0 THEN 1 ELSE 2 * Pow2(n - 1)

MaxZoom == 4
WorldSpan == 720     \* 360 degrees, fixed-point

\* osm.Map(bnds).z: the largest zoom at which the rectangle fits the viewport
OsmZoom(bnds) ==
    LET span == Max2(bnds[3] - bnds[1], bnds[4] - bnds[2])
        fits == {z \in 0..MaxZoom : span * Pow2(z) <= WorldSpan}
    IN  IF fits = {} THEN 0 ELSE CHOOSE z \in fits : \A y \in fits : y <= z

\* Faulty variant: the x midpoint first
ViewZoom_XFirst(minx, miny, maxx, maxy) ==
    LET bnds == << miny, minx, maxy, maxx >>
    IN  << Halve(minx + maxx), Halve(miny + maxy), OsmZoom(bnds) >>

\* viewzoom = [(miny + maxy) / 2, (minx + maxx) / 2, osm.Map(bnds).z]
ViewZoom(minx, miny, maxx, maxy) ==
    LET bnds == << miny, minx, maxy, maxx >>
    IN  << Halve(miny + maxy), Halve(minx + maxx), OsmZoom(bnds) >>

\* GreppoAppProxy.overlay_layer(data, title, description, style, visible)
overlay_layer(data, title, description, style, visible) ==
    LET id   == Len(raster_layers) + Len(overlay_layers) + 1
        minx == SeriesMin(Column(data, "minx"))
        miny == SeriesMin(Column(data, "miny"))
        maxx == SeriesMax(Column(data, "maxx"))
        maxy == SeriesMax(Column(data, "maxy"))
        viewzoom == ViewZoom(minx, miny, maxx, maxy)
    IN  /\ overlay_layers' = Append(overlay_layers,
              [id |-> id, data |-> data, title |-> title, description |-> description,
               style |-> style, visible |-> visible, viewzoom |-> viewzoom])
        /\ last' = [NoCall EXCEPT !.op = "overlay_layer",
                                  !.box = << minx, miny, maxx, maxy >>]
        /\ UNCHANGED << raster_layers, raster_image_reference, open_datasets, successes, n_calls >>

\* GreppoAppProxy.gpo_reference_data()
gpo_reference_data ==
    /\ last' = [NoCall EXCEPT
                  !.op = "gpo_reference_data",
                  !.result = IF Len(raster_image_reference) = 0
                             THEN [absent |-> TRUE, bytes |-> <<>>]
                             ELSE [absent |-> FALSE, bytes |-> raster_image_reference[1]]]
    /\ UNCHANGED << raster_layers, raster_image_reference, overlay_layers,
                    open_datasets, successes, n_calls >>

----------------------------------------------------------------------------
(* Inputs *)

NorthUp == Affine(1, 0, -10, 0, -1, 10)
UtmBounds == << 500000, 4000000, 500300, 4000300 >>
SamplePixels == << << 0, 200000000 >> >>

\* A file that cannot be opened, a raster without bands and a one-band raster
Files ==
    { SourceRaster(FALSE, 1, SamplePixels, UtmBounds, NorthUp, 10, 10),
      SourceRaster(TRUE, 0, SamplePixels, UtmBounds, NorthUp, 10, 10),
      SourceRaster(TRUE, 1, SamplePixels, UtmBounds, NorthUp, 10, 10) }

\* Readable rasters of every band count
BandFiles ==
    { SourceRaster(TRUE, n, SamplePixels, UtmBounds, NorthUp, 10, 10) : n \in 0..MaxBands }

Envs == [fault : FaultPoints, early_flush : BOOLEAN]

NoFault == [fault |-> "none", early_flush |-> FALSE]

Scales == (1..MaxScale) \cup { -k : k \in 1..MaxScale }

\* Destination grids: every scaling and translation, the identity among them
TransformFiles ==
    { SourceRaster(TRUE, 1, SamplePixels, UtmBounds, Affine(a, 0, c, 0, e, f), w, h) :
        a \in 1..MaxScale, e \in Scales, c \in {-10, 0}, f \in {0, 10},
        w \in {1, 10}, h \in {1, 10} }

PixelValues == { -200000000, -100000001, 0, 100000000, 100000001, 200000000 }

PixelFiles ==
    { SourceRaster(TRUE, 1, << << p, q >>, << q, 0 >> >>, UtmBounds, NorthUp, 10, 10) :
        p \in PixelValues, q \in PixelValues }

Fx(n) == 2 * n       \* the number n in fixed point

Coords == { Fx(5 * k) : k \in 0..MaxCoord }

FeatureBounds ==
    { [minx |-> x0, miny |-> y0, maxx |-> x1, maxy |-> y1] :
        x0 \in Coords, y0 \in Coords, x1 \in Coords, y1 \in Coords }

Boxes == { b \in FeatureBounds : b.minx <= b.maxx /\ b.miny <= b.maxy }

\* Geometry columns of one feature, and of two
GeoData == { << b >> : b \in Boxes }
           \cup { << b, c >> : b \in Boxes, c \in { x \in Boxes : x.minx = x.miny } }

----------------------------------------------------------------------------
(* One proxy object, its handlers called in any order *)

\* GreppoAppProxy.__init__
Init ==
    /\ raster_layers = <<>>
    /\ raster_image_reference = <<>>
    /\ overlay_layers = <<>>
    /\ open_datasets = 0
    /\ successes = <<>>
    /\ n_calls = 0
    /\ last = NoCall

RasterLayer ==
    /\ n_calls < MaxCalls
    /\ \E file \in Files, env \in Envs :
          raster_layer(file, "dem", "elevation", TRUE, env)

OverlayLayer ==
    /\ Len(overlay_layers) < MaxOverlays
    /\ \E data \in { << b >> : b \in { x \in Boxes : x.minx = 0 /\ x.miny = 0 /\ x.maxx = Fx(10) /\ x.maxy >= Fx(15) } } :
          overlay_layer(data, "roads", "road network", "line", TRUE)

GpoReferenceData == gpo_reference_data

Next == RasterLayer \/ OverlayLayer \/ GpoReferenceData

Spec == Init /\ [][Next]_vars

(* One handler call on a fresh proxy, over a wide range of inputs *)

FirstCall == n_calls = 0 /\ overlay_layers = <<>>

RasterLayerOnce ==
    /\ FirstCall
    /\ \E file \in TransformFiles \cup PixelFiles \cup BandFiles, visible \in BOOLEAN :
          raster_layer(file, "dem", "elevation", visible, NoFault)

OverlayLayerOnce ==
    /\ FirstCall
    /\ \E data \in GeoData :
          overlay_layer(data, "roads", "road network", "line", TRUE)

NextOnce == RasterLayerOnce \/ OverlayLayerOnce

SpecOnce == Init /\ [][NextOnce]_vars

----------------------------------------------------------------------------
(* Properties *)

Returned == last.op = "raster_layer" /\ last.failed_at = "none"

Absent == [absent |-> TRUE, bytes |-> <<>>]

Abs(v) == IF v < 0 THEN -v ELSE v

\* C1: gpo_reference_data returns absent while no ingestion has succeeded, and
\* afterwards the bytes recorded by the first successful ingestion.
C1_ReferenceIsFirstSuccess ==
    last.op = "gpo_reference_data" =>
        last.result = IF successes = <<>>
                      THEN Absent
                      ELSE [absent |-> FALSE, bytes |-> successes[1]]

\* C2: a raster_layer call whose file cannot be opened leaves raster_layers and
\* raster_image_reference exactly as they were.
C2_UnreadableAppendsNothing ==
    [][(last'.op = "raster_layer" /\ last'.failed_at = "open" /\ n_calls' = n_calls + 1)
          => /\ raster_layers' = raster_layers
             /\ raster_image_reference' = raster_image_reference]_vars

C2_Witness ==
    /\ last.op = "raster_layer" /\ last.failed_at = "open"
    /\ Len(raster_layers) > 0 /\ Len(raster_image_reference) > 0

\* C3: a raster_layer call that fails at a step after the source is opened leaves
\* raster_layers and raster_image_reference both unchanged.
C3_FailureExposesNothing ==
    [][(last'.op = "raster_layer" /\ last'.failed_at \notin {"none", "open"}
            /\ n_calls' = n_calls + 1)
          => /\ raster_layers' = raster_layers
             /\ raster_image_reference' = raster_image_reference]_vars

\* C4: no raster file handle opened by raster_layer is still open once the call
\* has ended, whatever the exit path.
C4_NoHandleLeftOpen == open_datasets = 0

IdentityGrid ==
    /\ Returned
    /\ last.file.default = [transform |-> Affine(1, 0, 0, 0, 1, 0), width |-> 10, height |-> 10]

\* C5 as stated: with the identity transform and width = height = 10 the bounds of
\* the layer record are [[0,0],[10,10]], the images of (0,0) and (width,height).
C5_IdentityBoundsAreCorners ==
    IdentityGrid => Last(raster_layers).bounds = << << 0, 0 >>, << 10, 10 >> >>

\* C5 amended: with the identity transform and width = height = 10 the bounds of
\* the layer record are [[10,0],[0,10]]: the first corner pairs the y of the image
\* of (width,height) with the x of the image of (0,0), the second the y of the
\* image of (0,0) with the x of the image of (width,height).
C5_IdentityBoundsAreCrossed ==
    IdentityGrid => Last(raster_layers).bounds = << << 10, 0 >>, << 0, 10 >> >>

C5_Witness == IdentityGrid /\ Len(raster_layers) = 1

NorthUpGrid ==
    /\ Returned
    /\ LET d == last.file.default
       IN  d.transform.a > 0 /\ d.transform.e < 0 /\ d.transform.b = 0 /\ d.transform.d = 0
           /\ d.width > 0 /\ d.height > 0

\* C6: for a north-up destination transform the bounds of the layer record are
\* [[south, west],[north, east]] of the destination grid, first corner <= second.
C6_NorthUpBoundsSouthWestNorthEast ==
    NorthUpGrid =>
        LET d     == last.file.default
            west  == d.transform.c
            north == d.transform.f
            east  == d.transform.c + d.transform.a * d.width
            south == d.transform.f + d.transform.e * d.height
            b     == Last(raster_layers).bounds
        IN  /\ b = << << south, west >>, << north, east >> >>
            /\ b[1][1] <= b[2][1] /\ b[1][2] <= b[2][2]

C6_Witness ==
    /\ NorthUpGrid
    /\ last.file.default.transform = Affine(2, 0, -10, 0, -2, 10)
    /\ last.file.default.width = 10 /\ last.file.default.height = 1

Offsets == { Fx(-7), Fx(3), Fx(100) }

\* C7: overlay_layer records the center ((min_y+max_y)/2, (min_x+max_x)/2) of the
\* bounding box of the geometry; (0,0,10,20) gives (10,5); translating the box
\* translates the center.
C7_CenterIsMidpointLatFirst ==
    last.op = "overlay_layer" =>
        LET layer == Last(overlay_layers)
            rows  == DOMAIN layer.data
            min_x == CHOOSE v \in { layer.data[i].minx : i \in rows } :
                        \A i \in rows : v <= layer.data[i].minx
            min_y == CHOOSE v \in { layer.data[i].miny : i \in rows } :
                        \A i \in rows : v <= layer.data[i].miny
            max_x == CHOOSE v \in { layer.data[i].maxx : i \in rows } :
                        \A i \in rows : v >= layer.data[i].maxx
            max_y == CHOOSE v \in { layer.data[i].maxy : i \in rows } :
                        \A i \in rows : v >= layer.data[i].maxy
            center == << layer.viewzoom[1], layer.viewzoom[2] >>
        IN  /\ 2 * center[1] = min_y + max_y
            /\ 2 * center[2] = min_x + max_x
            /\ << min_x, min_y, max_x, max_y >> = << 0, 0, Fx(10), Fx(20) >>
                  => center = << Fx(10), Fx(5) >>
            /\ \A t \in Offsets :
                  LET moved == ViewZoom(min_x + t, min_y + t, max_x + t, max_y + t)
                  IN  << moved[1], moved[2] >> = << center[1] + t, center[2] + t >>

C7_Witness ==
    /\ last.op = "overlay_layer"
    /\ last.box = << 0, 0, Fx(10), Fx(20) >>
    /\ Len(Last(overlay_layers).data) = 2

TwoValued(alpha) ==
    Cardinality({ alpha[r][c] : r \in DOMAIN alpha, c \in 1..Len(alpha[1]) }) <= 2

\* C8 as stated: the alpha band has two values, and a pixel is non-transparent iff
\* the magnitude of the band-0 pixel is <= 1e8.
C8_AlphaByMagnitude ==
    Returned =>
        /\ TwoValued(last.alpha)
        /\ \A r \in DOMAIN last.alpha : \A c \in DOMAIN last.alpha[r] :
              last.alpha[r][c] = 1 <=> Abs(last.band0[r][c]) <= SentinelThreshold

\* C8 amended: the alpha band has only the values 0 and 1, and a pixel holds the
\* transparent value 0 iff the signed value of the band-0 pixel is > 1e8; every
\* other pixel, large negative values included, holds the non-transparent value 1.
C8_AlphaBySignedValue ==
    Returned =>
        /\ TwoValued(last.alpha)
        /\ DOMAIN last.alpha = DOMAIN last.band0
        /\ \A r \in DOMAIN last.alpha :
              /\ DOMAIN last.alpha[r] = DOMAIN last.band0[r]
              /\ \A c \in DOMAIN last.alpha[r] :
                    /\ last.alpha[r][c] \in {0, 1}
                    /\ last.alpha[r][c] = 0 <=> last.band0[r][c] > SentinelThreshold

C8_Witness ==
    /\ Returned
    /\ last.band0[1] = << -200000000, 200000000 >>
    /\ last.alpha[1] = << 1, 0 >>

\* C9: for B >= 1 source bands the band list has B elements before the alpha band
\* is appended and B + 1 after, the encoder is told B + 1, and padding adds none.
C9_BandListLengths ==
    (Returned /\ last.file.count >= 1) =>
        /\ last.n_before_alpha = last.file.count
        /\ last.n_before_alpha = last.n_reprojected
        /\ last.n_after_alpha = last.file.count + 1
        /\ last.count_kw = last.file.count + 1

C9_Witness == Returned /\ last.file.count = 4 /\ last.n_after_alpha = 5

\* C10: the image_data_uri of the appended record is the prefix followed by the
\* base64 of the bytes the same call appended to raster_image_reference, and the
\* second read of the memory file yields the same non-empty bytes as the first.
C10_UriEncodesReferenceBytes ==
    Returned =>
        /\ Last(raster_layers).image_data_uri
              = << DataUriPrefix >> \o b64encode(Last(raster_image_reference))
        /\ last.second_read = last.first_read
        /\ last.first_read # <<>>

====
